---- MODULE Spec2Model ----
(***************************************************************************)
(* A model of gobstones-lang-intl: the StringReader word scanner, the      *)
(* BidirectionalMap, the locale registry built by the GobstonesTranslator  *)
(* constructor, and the toTokens / fromTokens / translate operations.      *)
(*                                                                         *)
(* JavaScript strings are sequences of one-character strings; a Map is a   *)
(* sequence of <<key, value>> pairs in insertion order; the plain object   *)
(* registeredLocales is a function on its own keys plus the properties it  *)
(* inherits from Object.prototype.                                         *)
(***************************************************************************)
EXTENDS Integers, Sequences, FiniteSets, TLC

VARIABLES
    constructed,        \* "no" before new, "yes" once the constructor returned, "threw" if it threw
    thrown,             \* the error the constructor threw (NoError if none)
    options,            \* the GobstonesTranslatorOptions given to the constructor
    tokenPrefix,        \* this.tokenPrefix
    tokenSuffix,        \* this.tokenSuffix
    registeredLocales,  \* this.registeredLocales (own properties)
    from,               \* this.from
    to,                 \* this.to
    names,              \* this.names
    pc,                 \* "idle" or "returned": position of the caller of the translator
    call,               \* the operation call in progress: [op, code, options]
    result,             \* what the call returned or threw
    scans,              \* per concurrent caller: the locals of its call in progress
    reader,             \* a StringReader used on its own: [str, index]
    readerCall,         \* the last method called on it, the reader before, what it returned
    bimap,              \* a BidirectionalMap used on its own: [map, reverseMap]
    bimapCall           \* the last update of it and the keys and values given so far

vars == <<constructed, thrown, options, tokenPrefix, tokenSuffix, registeredLocales,
          from, to, names, pc, call, result, scans,
          reader, readerCall, bimap, bimapCall>>

-----------------------------------------------------------------------------
(* Bounds *)

\* the most parts a code string given to an operation is made of
MaxParts == 2

\* the most user locales given in the locales option
MaxLocales == 2

\* the most calls in progress on one translator at a time
MaxCalls == 2

\* the most parts a string given to a StringReader is made of
MaxReaderParts == 3

\* the most entries a BidirectionalMap is constructed with
MaxEntries == 2

-----------------------------------------------------------------------------
(* JavaScript values *)

\* the value undefined where a string (a locale name) is expected
undefined == "<undefined>"

\* an optional string or list: absent, or present with a value
Absent == [defined |-> FALSE, value |-> <<>>]
Present(v) == [defined |-> TRUE, value |-> v]

RECURSIVE Concat(_)
\* the concatenation of a sequence of strings
Concat(ss) == IF ss = <<>> THEN <<>> ELSE Head(ss) \o Concat(Tail(ss))

\* all concatenations of at most n strings of a set
ConcatsUpTo(parts, n) == {Concat(ps) : ps \in UNION {[1..k -> parts] : k \in 0..n}}

-----------------------------------------------------------------------------
(* Map<string, string>: pairs in insertion order, keys unique *)

MapHas(m, k) == \E i \in 1..Len(m) : m[i][1] = k

MapGet(m, k) == m[CHOOSE i \in 1..Len(m) : m[i][1] = k][2]

\* Map.prototype.set: an existing key keeps its position
MapSet(m, k, v) ==
    IF MapHas(m, k)
    THEN [i \in 1..Len(m) |-> IF m[i][1] = k THEN <<k, v>> ELSE m[i]]
    ELSE Append(m, <<k, v>>)

RECURSIVE MapSetAll(_, _)
MapSetAll(m, entries) ==
    IF entries = <<>> THEN m
    ELSE MapSetAll(MapSet(m, Head(entries)[1], Head(entries)[2]), Tail(entries))

\* new Map(entries)
NewMap(entries) == MapSetAll(<<>>, entries)

MapKeys(m) == {m[i][1] : i \in 1..Len(m)}

-----------------------------------------------------------------------------
(* BidirectionalMap *)

RECURSIVE ReverseSetAll(_, _)
ReverseSetAll(m, entries) ==
    IF entries = <<>> THEN m
    ELSE ReverseSetAll(MapSet(m, Head(entries)[2], Head(entries)[1]), Tail(entries))

\* the pairs taken from the last to the first, so that the first of a key stays
BidirectionalMap_firstWins(entries) ==
    LET backwards == [i \in 1..Len(entries) |-> entries[Len(entries) + 1 - i]]
    IN [map |-> NewMap(backwards), reverseMap |-> ReverseSetAll(<<>>, backwards)]

\* new BidirectionalMap(entries)
BidirectionalMap(entries) ==
    [map |-> NewMap(entries), reverseMap |-> ReverseSetAll(<<>>, entries)]

\* this.map.has(key), this.reverseMap.has(value)
hasKey(bm, key) == MapHas(bm.map, key)

hasValue(bm, value) == MapHas(bm.reverseMap, value)

\* this.map.get(key): undefined when the Map has no such key
getByKey(bm, key) == IF MapHas(bm.map, key) THEN Present(MapGet(bm.map, key)) ELSE Absent

getByValue(bm, value) ==
    IF MapHas(bm.reverseMap, value) THEN Present(MapGet(bm.reverseMap, value)) ELSE Absent

\* the pair set in the map by keys only
setByKey_forwardOnly(bm, key, value) ==
    [map |-> MapSet(bm.map, key, value), reverseMap |-> bm.reverseMap]

setByKey(bm, key, value) ==
    [map |-> MapSet(bm.map, key, value), reverseMap |-> MapSet(bm.reverseMap, value, key)]

setByValue(bm, value, key) ==
    [map |-> MapSet(bm.map, key, value), reverseMap |-> MapSet(bm.reverseMap, value, key)]

getMapByKeys(bm) == bm.map

getMapByValues(bm) == bm.reverseMap

-----------------------------------------------------------------------------
(* StringReader: a reader is [str, index] *)

\* the expression without the minus sign at its end
WordEnders_withoutMinus ==
    {" ", "\n", "\t", "(", ")", "[", "]", "{", "}", ",", ";", ".", ":", "=", ">", "<"}

\* the characters excluded by the default wordEnders expression
WordEnders ==
    {" ", "\n", "\t", "(", ")", "[", "]", "{", "}", ",", ";", ".", ":", "=", ">", "<", "-"}

StringReader(str) == [str |-> str, index |-> 0]

\* String.prototype.charAt: the empty string outside the string
charAt(str, i) == IF i >= 0 /\ i < Len(str) THEN str[i + 1] ELSE ""

\* the decoration character taken for a word ender too
isAlpha_dollarEndsWord(char) == char # "" /\ char \notin (WordEnders \cup {"$"})

\* wordEnders.test(char): some character of char is not a word ender
isAlpha(char) == char # "" /\ char \notin WordEnders

eof(sr) == sr.index >= Len(sr.str)

isWord(sr) == IF eof(sr) THEN FALSE ELSE isAlpha(charAt(sr.str, sr.index))

RECURSIVE offsetFrom(_, _)
offsetFrom(sr, offset) ==
    IF isAlpha(charAt(sr.str, sr.index + offset))
    THEN offsetFrom(sr, offset + 1)
    ELSE offset

\* the offset not counted beyond the first word character
offsetToNonAlpha_firstOnly(sr) == IF isAlpha(charAt(sr.str, sr.index)) THEN 1 ELSE 0

offsetToNonAlpha(sr) == offsetFrom(sr, 0)

\* peekChar, nextChar, nextWord, peekWord return [sr, ret]: the reader
\* afterwards and the returned value (Absent for undefined)
peekChar(sr) ==
    IF eof(sr) THEN [sr |-> sr, ret |-> Absent]
    ELSE [sr |-> sr, ret |-> Present(<<charAt(sr.str, sr.index)>>)]

\* the character read after the index was advanced
nextChar_afterAdvance(sr) ==
    IF eof(sr) THEN [sr |-> sr, ret |-> Absent]
    ELSE [sr |-> [sr EXCEPT !.index = @ + 1],
          ret |-> peekChar([sr EXCEPT !.index = @ + 1]).ret]

nextChar(sr) ==
    IF eof(sr) THEN [sr |-> sr, ret |-> Absent]
    ELSE [sr |-> [sr EXCEPT !.index = @ + 1], ret |-> peekChar(sr).ret]

\* the word read without asking for the end of the string first
nextWord_noEofCheck(sr) ==
    LET offset == offsetToNonAlpha(sr)
        word == [i \in 1..offset |-> charAt(sr.str, sr.index + (i - 1))]
    IN [sr |-> [sr EXCEPT !.index = @ + offset], ret |-> Present(word)]

nextWord(sr) ==
    IF eof(sr) THEN [sr |-> sr, ret |-> Absent]
    ELSE LET offset == offsetToNonAlpha(sr)
             word == [i \in 1..offset |-> charAt(sr.str, sr.index + (i - 1))]
         IN [sr |-> [sr EXCEPT !.index = @ + offset], ret |-> Present(word)]

\* the index left where nextWord put it
peekWord_noRestore(sr) ==
    IF eof(sr) THEN [sr |-> sr, ret |-> Absent]
    ELSE LET n == nextWord(sr)
         IN [sr |-> n.sr, ret |-> n.ret]

peekWord(sr) ==
    IF eof(sr) THEN [sr |-> sr, ret |-> Absent]
    ELSE LET currentIdx == sr.index
             n == nextWord(sr)
         IN [sr |-> [n.sr EXCEPT !.index = currentIdx], ret |-> n.ret]

-----------------------------------------------------------------------------
(* Errors *)

Error(name, arg, attribute) == [name |-> name, arg |-> arg, attribute |-> attribute]

NoError == Error("", "", "")

NonExistentLocaleGiven(langName, attribute) ==
    Error("NonExistentLocaleGiven", langName, attribute)

LocaleNameCollision(localeName) == Error("LocaleNameCollision", localeName, "")

NoFromLocaleGiven == Error("NoFromLocaleGiven", "", "")

NoToLocaleGiven == Error("NoToLocaleGiven", "", "")

NoNamesGiven == Error("NoNamesGiven", "", "")

\* calling a method of a value that has none (x.getMapByKeys is not a function)
TypeError == Error("TypeError", "", "")

-----------------------------------------------------------------------------
(* Locale definitions: [extends, tokens], tokens being the <<token name,      *)
(* spelling>> entries of the object in key order.  The token-name set and the *)
(* word lists are scaled down to two tokens with one- or two-letter spellings.*)

GBS_COMMAND_DROP == <<"D">>

GBS_COLOR_RED == <<"R">>

LocaleTokens == {GBS_COMMAND_DROP, GBS_COLOR_RED}

en == [extends |-> undefined,
       tokens |-> << <<GBS_COMMAND_DROP, <<"d">> >>, <<GBS_COLOR_RED, <<"r">> >> >>]

enUK == [extends |-> "en",
         tokens |-> << <<GBS_COLOR_RED, <<"r", "r">> >> >>]

es == [extends |-> undefined,
       tokens |-> << <<GBS_COMMAND_DROP, <<"p">> >>, <<GBS_COLOR_RED, <<"r">> >> >>]

\* the built-in locales, in key order (one regional variant of each kind)
availableLocales ==
    << <<"en", en>>, <<"en-GB", enUK>>, <<"en-US", en>>, <<"es", es>>, <<"es-AR", es>> >>

-----------------------------------------------------------------------------
(* The registry: this.registeredLocales = {} and registerLocale *)

\* property names every plain object inherits from Object.prototype
ObjectPrototype ==
    {"constructor", "toString", "valueOf", "hasOwnProperty", "isPrototypeOf",
     "propertyIsEnumerable", "toLocaleString", "__proto__"}

\* name is an own key of the registry: registeredLocales[name] is a BidirectionalMap
isRegistered(registry, name) == name \in DOMAIN registry

\* expect(this.registeredLocales[name]).toBeDefined()
isDefined(registry, name) == isRegistered(registry, name) \/ name \in ObjectPrototype

startsWith(s, prefix) == Len(prefix) <= Len(s) /\ SubSeq(s, 1, Len(prefix)) = prefix

endsWith(s, suffix) ==
    Len(suffix) <= Len(s) /\ SubSeq(s, Len(s) - Len(suffix) + 1, Len(s)) = suffix

\* `${this.tokenPrefix}${k}${this.tokenSuffix}`
decorated(prefix, k, suffix) == prefix \o k \o suffix

\* the key with the prefix and the suffix removed, when it has them
keyNoPrefixNorSuffix(prefix, key, suffix) ==
    LET k1 == IF startsWith(key, prefix) THEN SubSeq(key, Len(prefix) + 1, Len(key)) ELSE key
    IN IF endsWith(k1, suffix) THEN SubSeq(k1, 1, Len(k1) - Len(suffix)) ELSE k1

\* langDefinition[tokenName] is truthy: supplied and not the empty string
suppliesSpelling(langDefinition, tokenName) ==
    MapHas(langDefinition.tokens, tokenName) /\ MapGet(langDefinition.tokens, tokenName) # <<>>

\* the entries of the definition put after those of the extended locale
getExtendedDefinitionEntries_concat(this, langDefinition, extendedLanguage) ==
    getMapByKeys(this.registeredLocales[extendedLanguage])
    \o [i \in 1..Len(langDefinition.tokens) |->
          <<decorated(this.tokenPrefix, langDefinition.tokens[i][1], this.tokenSuffix),
            langDefinition.tokens[i][2]>>]

getExtendedDefinitionEntries(this, langDefinition, extendedLanguage) ==
    LET extendedEntries == getMapByKeys(this.registeredLocales[extendedLanguage])
    IN [i \in 1..Len(extendedEntries) |->
          LET key == extendedEntries[i][1]
              value == extendedEntries[i][2]
              bare == keyNoPrefixNorSuffix(this.tokenPrefix, key, this.tokenSuffix)
          IN IF suppliesSpelling(langDefinition, bare)
             THEN <<key, MapGet(langDefinition.tokens, bare)>>
             ELSE <<key, value>>]

\* a definition that extends nothing is refused unless it spells every token
registerLocale_wholeOnly(this, name, langDefinition) ==
    IF ~(langDefinition.extends = undefined
         \/ isDefined(this.registeredLocales, langDefinition.extends))
    THEN [registeredLocales |-> this.registeredLocales,
          error |-> NonExistentLocaleGiven(langDefinition.extends, "extends")]
    ELSE IF isDefined(this.registeredLocales, name)
    THEN [registeredLocales |-> this.registeredLocales, error |-> LocaleNameCollision(name)]
    ELSE IF langDefinition.extends # undefined
            /\ ~isRegistered(this.registeredLocales, langDefinition.extends)
    THEN [registeredLocales |-> this.registeredLocales, error |-> TypeError]
    ELSE IF langDefinition.extends = undefined
            /\ {langDefinition.tokens[i][1] : i \in 1..Len(langDefinition.tokens)}
                 # LocaleTokens
    THEN [registeredLocales |-> this.registeredLocales, error |-> TypeError]
    ELSE LET definitionEntries ==
                 IF langDefinition.extends # undefined
                 THEN getExtendedDefinitionEntries(this, langDefinition, langDefinition.extends)
                 ELSE [i \in 1..Len(langDefinition.tokens) |->
                         <<decorated(this.tokenPrefix, langDefinition.tokens[i][1],
                                     this.tokenSuffix),
                           langDefinition.tokens[i][2]>>]
         IN [registeredLocales |->
                 (name :> BidirectionalMap(definitionEntries)) @@ this.registeredLocales,
             error |-> NoError]

\* the name is assigned without asking whether it is already taken
registerLocale_overwrites(this, name, langDefinition) ==
    IF ~(langDefinition.extends = undefined
         \/ isDefined(this.registeredLocales, langDefinition.extends))
    THEN [registeredLocales |-> this.registeredLocales,
          error |-> NonExistentLocaleGiven(langDefinition.extends, "extends")]
    ELSE IF langDefinition.extends # undefined
            /\ ~isRegistered(this.registeredLocales, langDefinition.extends)
    THEN [registeredLocales |-> this.registeredLocales, error |-> TypeError]
    ELSE LET definitionEntries ==
                 IF langDefinition.extends # undefined
                 THEN getExtendedDefinitionEntries(this, langDefinition, langDefinition.extends)
                 ELSE [i \in 1..Len(langDefinition.tokens) |->
                         <<decorated(this.tokenPrefix, langDefinition.tokens[i][1],
                                     this.tokenSuffix),
                           langDefinition.tokens[i][2]>>]
         IN [registeredLocales |->
                 (name :> BidirectionalMap(definitionEntries)) @@ this.registeredLocales,
             error |-> NoError]

\* registerLocale returns the registry afterwards and the error thrown, if any
registerLocale(this, name, langDefinition) ==
    IF ~(langDefinition.extends = undefined
         \/ isDefined(this.registeredLocales, langDefinition.extends))
    THEN [registeredLocales |-> this.registeredLocales,
          error |-> NonExistentLocaleGiven(langDefinition.extends, "extends")]
    ELSE IF isDefined(this.registeredLocales, name)
    THEN [registeredLocales |-> this.registeredLocales, error |-> LocaleNameCollision(name)]
    ELSE IF langDefinition.extends # undefined
            /\ ~isRegistered(this.registeredLocales, langDefinition.extends)
    THEN \* the inherited property is not a BidirectionalMap
         [registeredLocales |-> this.registeredLocales, error |-> TypeError]
    ELSE LET definitionEntries ==
                 IF langDefinition.extends # undefined
                 THEN getExtendedDefinitionEntries(this, langDefinition, langDefinition.extends)
                 ELSE [i \in 1..Len(langDefinition.tokens) |->
                         <<decorated(this.tokenPrefix, langDefinition.tokens[i][1],
                                     this.tokenSuffix),
                           langDefinition.tokens[i][2]>>]
         IN [registeredLocales |->
                 (name :> BidirectionalMap(definitionEntries)) @@ this.registeredLocales,
             error |-> NoError]

RECURSIVE registerAllLocales(_, _)
\* languages: the <<name, definition>> entries of the object, in key order
registerAllLocales(this, languages) ==
    IF languages = <<>> THEN [registeredLocales |-> this.registeredLocales, error |-> NoError]
    ELSE LET r == registerLocale(this, Head(languages)[1], Head(languages)[2])
         IN IF r.error # NoError THEN r
            ELSE registerAllLocales([this EXCEPT !.registeredLocales = r.registeredLocales],
                                    Tail(languages))

-----------------------------------------------------------------------------
(* GobstonesTranslator: constructor *)

\* the object under construction: every field still unassigned
NewObject ==
    [tokenPrefix |-> <<>>, tokenSuffix |-> <<>>, registeredLocales |-> <<>>,
     from |-> undefined, to |-> undefined,
     names |-> [defined |-> FALSE, map |-> <<>>, reverseMap |-> <<>>]]

\* options.names ? new BidirectionalMap(Object.entries(options.names)) : undefined
namesOf(opts) ==
    IF opts.names.defined
    THEN [defined |-> TRUE,
          map |-> BidirectionalMap(opts.names.value).map,
          reverseMap |-> BidirectionalMap(opts.names.value).reverseMap]
    ELSE [defined |-> FALSE, map |-> <<>>, reverseMap |-> <<>>]

\* the constructor returns the object as it is when the constructor ends and
\* the error it threw, if any
constructor(opts) ==
    LET this0 == [NewObject EXCEPT
                    !.tokenPrefix = IF opts.tokenPrefix.defined
                                    THEN opts.tokenPrefix.value ELSE <<"$">>,
                    !.tokenSuffix = IF opts.tokenSuffix.defined
                                    THEN opts.tokenSuffix.value ELSE <<"$">>]
        r1 == registerAllLocales(this0, availableLocales)
        this1 == [this0 EXCEPT !.registeredLocales = r1.registeredLocales]
        r2 == registerAllLocales(this1, opts.locales)
        this2 == [this1 EXCEPT !.registeredLocales = r2.registeredLocales]
        this3 == [this2 EXCEPT !.from = opts.from, !.to = opts.to, !.names = namesOf(opts)]
    IN IF r1.error # NoError THEN [this |-> this1, error |-> r1.error]
       ELSE IF r2.error # NoError THEN [this |-> this2, error |-> r2.error]
       ELSE IF ~(this3.from = undefined \/ isDefined(this3.registeredLocales, this3.from))
       THEN [this |-> this3, error |-> NonExistentLocaleGiven(this3.from, "fromLang")]
       ELSE IF ~(this3.to = undefined \/ isDefined(this3.registeredLocales, this3.to))
       THEN [this |-> this3, error |-> NonExistentLocaleGiven(this3.to, "toLang")]
       ELSE [this |-> this3, error |-> NoError]

-----------------------------------------------------------------------------
(* GobstonesTranslator: toTokens, fromTokens, translate *)

Returned(v) == [threw |-> FALSE, value |-> v, error |-> NoError]

Threw(e) == [threw |-> TRUE, value |-> <<>>, error |-> e]

\* TranslationOptions: the argument omitted, or given with includeNames
NoOptions == [given |-> FALSE, includeNames |-> FALSE]

WithIncludeNames(b) == [given |-> TRUE, includeNames |-> b]

TranslationOptions == {NoOptions, WithIncludeNames(FALSE), WithIncludeNames(TRUE)}

\* any options argument taken as a request for the names
includeNamesOf_whenGiven(opts) == opts.given

\* options?.includeNames || false
includeNamesOf(opts) == opts.given /\ opts.includeNames

\* the names entries first and the locale entries second
fullMap_localeWins(this, useNames, map, namesMap) ==
    IF ~(~useNames \/ (useNames /\ this.names.defined))
    THEN [threw |-> TRUE, error |-> NoNamesGiven, map |-> <<>>]
    ELSE [threw |-> FALSE, error |-> NoError,
          map |-> IF ~useNames THEN map
                  ELSE NewMap((IF namesMap.defined THEN namesMap.value ELSE <<>>) \o map)]

\* fullMap returns [threw, error, map]
fullMap(this, useNames, map, namesMap) ==
    IF ~(~useNames \/ (useNames /\ this.names.defined))
    THEN [threw |-> TRUE, error |-> NoNamesGiven, map |-> <<>>]
    ELSE [threw |-> FALSE, error |-> NoError,
          map |-> IF ~useNames THEN map
                  ELSE NewMap(map \o (IF namesMap.defined THEN namesMap.value ELSE <<>>))]

RECURSIVE translateLoop_noHas(_, _, _)
\* map.get(word) appended without asking map.has(word)
translateLoop_noHas(sr, res, map) ==
    IF eof(sr) THEN res
    ELSE IF isWord(sr)
    THEN LET n == nextWord(sr)
             word == n.ret
         IN translateLoop_noHas(n.sr,
                                res \o (IF MapHas(map, word.value)
                                        THEN MapGet(map, word.value)
                                        ELSE <<"u", "n", "d", "e", "f", "i", "n", "e", "d">>),
                                map)
    ELSE LET c == nextChar(sr)
         IN translateLoop_noHas(c.sr, res \o c.ret.value, map)

RECURSIVE translateLoop(_, _, _)
\* the while loop of translateWithMap, from reader sr with result so far
translateLoop(sr, res, map) ==
    IF eof(sr) THEN res
    ELSE IF isWord(sr)
    THEN LET n == nextWord(sr)
             word == n.ret
         IN translateLoop(n.sr,
                          IF word.defined /\ word.value # <<>>
                          THEN res \o (IF MapHas(map, word.value)
                                       THEN MapGet(map, word.value) ELSE word.value)
                          ELSE res,
                          map)
    ELSE LET c == nextChar(sr)
         IN translateLoop(c.sr, res \o c.ret.value, map)

translateWithMap(code, map) == translateLoop(StringReader(code), <<>>, map)

\* the source locale looked up without asking whether one was given
toTokens_noFromCheck(this, code, opts) ==
    IF ~isRegistered(this.registeredLocales, this.from) THEN Threw(TypeError)
    ELSE LET m == fullMap(this, includeNamesOf(opts),
                          getMapByValues(this.registeredLocales[this.from]),
                          IF this.names.defined THEN Present(this.names.map) ELSE Absent)
         IN IF m.threw THEN Threw(m.error) ELSE Returned(translateWithMap(code, m.map))

\* the names read from their to side
toTokens_namesBackwards(this, code, opts) ==
    IF this.from = undefined THEN Threw(NoFromLocaleGiven)
    ELSE IF ~isRegistered(this.registeredLocales, this.from) THEN Threw(TypeError)
    ELSE LET m == fullMap(this, includeNamesOf(opts),
                          getMapByValues(this.registeredLocales[this.from]),
                          IF this.names.defined THEN Present(this.names.reverseMap) ELSE Absent)
         IN IF m.threw THEN Threw(m.error) ELSE Returned(translateWithMap(code, m.map))

toTokens(this, code, opts) ==
    IF this.from = undefined THEN Threw(NoFromLocaleGiven)
    ELSE IF ~isRegistered(this.registeredLocales, this.from) THEN Threw(TypeError)
    ELSE LET m == fullMap(this, includeNamesOf(opts),
                          getMapByValues(this.registeredLocales[this.from]),
                          IF this.names.defined THEN Present(this.names.map) ELSE Absent)
         IN IF m.threw THEN Threw(m.error) ELSE Returned(translateWithMap(code, m.map))

\* the destination locale read in the wrong direction
fromTokens_byValues(this, code, opts) ==
    IF this.to = undefined THEN Threw(NoToLocaleGiven)
    ELSE IF ~isRegistered(this.registeredLocales, this.to) THEN Threw(TypeError)
    ELSE LET m == fullMap(this, includeNamesOf(opts),
                          getMapByValues(this.registeredLocales[this.to]),
                          IF this.names.defined THEN Present(this.names.reverseMap) ELSE Absent)
         IN IF m.threw THEN Threw(m.error) ELSE Returned(translateWithMap(code, m.map))

fromTokens(this, code, opts) ==
    IF this.to = undefined THEN Threw(NoToLocaleGiven)
    ELSE IF ~isRegistered(this.registeredLocales, this.to) THEN Threw(TypeError)
    ELSE LET m == fullMap(this, includeNamesOf(opts),
                          getMapByKeys(this.registeredLocales[this.to]),
                          IF this.names.defined THEN Present(this.names.reverseMap) ELSE Absent)
         IN IF m.threw THEN Threw(m.error) ELSE Returned(translateWithMap(code, m.map))

\* the options passed on unchanged to the second half
optionsWithNoNames_passedOn(opts) == opts

\* Object.assign({}, options, { includeNames: false })
optionsWithNoNames(opts) == WithIncludeNames(FALSE)

\* the names applied in the fromTokens half instead of the toTokens half
translate_namesInSecondHalf(this, code, opts) ==
    LET keywordCode == toTokens(this, code, WithIncludeNames(FALSE))
    IN IF keywordCode.threw THEN keywordCode
       ELSE fromTokens(this, keywordCode.value, opts)

\* the destination locale asked for before the toTokens half runs
translate_destinationFirst(this, code, opts) ==
    IF this.to = undefined THEN Threw(NoToLocaleGiven)
    ELSE LET keywordCode == toTokens(this, code, opts)
         IN IF keywordCode.threw THEN keywordCode
            ELSE fromTokens(this, keywordCode.value, optionsWithNoNames(opts))

translate(this, code, opts) ==
    LET keywordCode == toTokens(this, code, opts)
    IN IF keywordCode.threw THEN keywordCode
       ELSE fromTokens(this, keywordCode.value, optionsWithNoNames(opts))

-----------------------------------------------------------------------------
(* The operations taken one step at a time: what a call holds in its local  *)
(* variables (map, sr, result) between two turns of the loop.               *)

\* the dictionary toTokens builds before it calls translateWithMap, or the
\* error it throws: [threw, error, map]
toTokensMap(this, opts) ==
    IF this.from = undefined THEN [threw |-> TRUE, error |-> NoFromLocaleGiven, map |-> <<>>]
    ELSE IF ~isRegistered(this.registeredLocales, this.from)
    THEN [threw |-> TRUE, error |-> TypeError, map |-> <<>>]
    ELSE fullMap(this, includeNamesOf(opts),
                 getMapByValues(this.registeredLocales[this.from]),
                 IF this.names.defined THEN Present(this.names.map) ELSE Absent)

\* the same for fromTokens
fromTokensMap(this, opts) ==
    IF this.to = undefined THEN [threw |-> TRUE, error |-> NoToLocaleGiven, map |-> <<>>]
    ELSE IF ~isRegistered(this.registeredLocales, this.to)
    THEN [threw |-> TRUE, error |-> TypeError, map |-> <<>>]
    ELSE fullMap(this, includeNamesOf(opts),
                 getMapByKeys(this.registeredLocales[this.to]),
                 IF this.names.defined THEN Present(this.names.reverseMap) ELSE Absent)

\* one turn of the while loop of translateWithMap: the reader and the result
\* afterwards
\* a word is read whatever the character at the position is
scanStep_alwaysWord(sr, res, map) ==
    LET n == nextWord(sr)
        word == n.ret
    IN [sr |-> n.sr,
        result |-> IF word.defined /\ word.value # <<>>
                   THEN res \o (IF MapHas(map, word.value)
                                THEN MapGet(map, word.value) ELSE word.value)
                   ELSE res]

scanStep(sr, res, map) ==
    IF isWord(sr)
    THEN LET n == nextWord(sr)
             word == n.ret
         IN [sr |-> n.sr,
             result |-> IF word.defined /\ word.value # <<>>
                        THEN res \o (IF MapHas(map, word.value)
                                     THEN MapGet(map, word.value) ELSE word.value)
                        ELSE res]
    ELSE LET c == nextChar(sr)
         IN [sr |-> c.sr, result |-> res \o c.ret.value]

-----------------------------------------------------------------------------
(* What the operations leave behind in the translator.  getMapByKeys and    *)
(* getMapByValues return the Map object the locale holds, not a copy, so    *)
(* the loop of translateWithMap may be working on a Map of the registry.    *)

\* fullMap returns the Map it was given when the names are not used, and a
\* new Map otherwise
fullMapIsGivenMap(useNames) == ~useNames

\* every text translated is remembered in the Map under itself
mapAfterTranslateWithMap_memo(code, map) == MapSet(map, code, code)

\* the Map given to translateWithMap as the loop leaves it: has and get are
\* the only methods called on it
mapAfterTranslateWithMap(code, map) == map

\* this after toTokens(code, opts)
thisAfterToTokens(this, code, opts) ==
    IF toTokens(this, code, opts).threw \/ ~fullMapIsGivenMap(includeNamesOf(opts))
    THEN this
    ELSE [this EXCEPT !.registeredLocales[this.from].reverseMap =
                          mapAfterTranslateWithMap(code, @)]

\* this after fromTokens(code, opts)
thisAfterFromTokens(this, code, opts) ==
    IF fromTokens(this, code, opts).threw \/ ~fullMapIsGivenMap(includeNamesOf(opts))
    THEN this
    ELSE [this EXCEPT !.registeredLocales[this.to].map =
                          mapAfterTranslateWithMap(code, @)]

\* this after translate(code, opts)
thisAfterTranslate(this, code, opts) ==
    LET keywordCode == toTokens(this, code, opts)
        afterToTokens == thisAfterToTokens(this, code, opts)
    IN IF keywordCode.threw THEN afterToTokens
       ELSE thisAfterFromTokens(afterToTokens, keywordCode.value, optionsWithNoNames(opts))

-----------------------------------------------------------------------------
(* Inputs *)

GobstonesTranslatorOptions(f, t, n, l, prefix, suffix) ==
    [from |-> f, to |-> t, names |-> n, locales |-> l,
     tokenPrefix |-> prefix, tokenSuffix |-> suffix]

\* names maps: a from-name that becomes another from-name and a from-name that
\* is a spelling of en; to-names that are decorated tokens
namesChain == << << <<"d", "d">>, <<"p", "p">> >>, << <<"d">>, <<"d", "d">> >> >>

namesTokens == << << <<"d", "d">>, <<"$", "D", "$">> >>, << <<"$">>, <<"D">> >> >>

\* a complete user locale one of whose spellings holds a separator
fr == [extends |-> undefined,
       tokens |-> << <<GBS_COMMAND_DROP, <<"d", "-">> >>, <<GBS_COLOR_RED, <<"D">> >> >>]

\* a user locale that extends nothing and spells one token only
frPartial == [extends |-> undefined, tokens |-> << <<GBS_COLOR_RED, <<"D">> >> >>]

\* token decorations: the default, none at all, and one with a separator in it
Decorations == {<<Absent, Absent>>, <<Present(<<>>), Present(<<>>)>>, <<Present(<<"-">>), Absent>>}

\* the options the translation operations are exercised under
TranslatorOptions ==
    {GobstonesTranslatorOptions(f, t, n, <<>>, Absent, Absent) :
        f \in {undefined, "en", "es"}, t \in {undefined, "en", "es"},
        n \in {Absent, Present(namesChain), Present(namesTokens)}}
    \cup
    {GobstonesTranslatorOptions(f, t, n, <<>>, d[1], d[2]) :
        f \in {"en", "es"}, t \in {"en", "es"},
        n \in {Absent, Present(namesTokens)}, d \in Decorations}
    \cup
    {GobstonesTranslatorOptions(f, t, Absent, << <<"fr", fr>> >>, Absent, Absent) :
        f \in {"en", "fr"}, t \in {"en", "fr"}}
    \cup
    {GobstonesTranslatorOptions("en", "fr", n, << <<"fr", frPartial>> >>, d[1], d[2]) :
        n \in {Absent, Present(namesTokens)}, d \in Decorations}

\* user locales that extend: a built-in one, a name nobody registers, a
\* property every object inherits, and another user locale of the batch
enAU == [extends |-> "en", tokens |-> << <<GBS_COMMAND_DROP, <<"d", "d">> >> >>]

extendsUnregistered == [extends |-> "zz", tokens |-> << <<GBS_COLOR_RED, <<"D">> >> >>]

extendsConstructor == [extends |-> "constructor", tokens |-> << <<GBS_COLOR_RED, <<"D">> >> >>]

extendsUserLocale == [extends |-> "x", tokens |-> << <<GBS_COLOR_RED, <<"D">> >> >>]

\* the names user locales are given: a built-in name and two fresh ones
LocaleNames == {"en", "fr", "x"}

LocaleDefinitions == {fr, enAU, extendsUnregistered, extendsConstructor, extendsUserLocale}

\* the locales option: the entries of an object in key order, no key twice
LocaleBatches ==
    {l \in UNION {[1..k -> LocaleNames \X LocaleDefinitions] : k \in 0..MaxLocales} :
        \A i, j \in DOMAIN l : l[i][1] = l[j][1] => i = j}

\* the options the registry and the constructor's checks are exercised under
RegistryOptions ==
    {GobstonesTranslatorOptions(f, t, Absent, l, Absent, Absent) :
        f \in {undefined, "en", "xx", "constructor", "x"},
        t \in {undefined, "en", "xx", "toString"},
        l \in LocaleBatches}

\* the code strings given to the operations of these translators
RegistryCodes == {<<"d">>, <<"$", "D", "$", " ", "d", "d">>}

\* the parts code strings are made of: a spelling of en, a decorated token, a
\* token name, the default decoration and two separators
CodeParts == {<<"d">>, <<"$", "D", "$">>, <<"D">>, <<"$">>, <<" ">>, <<"-">>}

\* the code strings given to the operations
Codes == ConcatsUpTo(CodeParts, MaxParts)

\* characters that are no word enders: letters, digits, the underscore, the
\* decoration character, accented letters, other symbols and white space
WordCharacters == {"a", "Z", "0", "_", "$", "é", "ñ", "+", "/", "\r"}

\* the strings given to a StringReader: texts of words and separators, and
\* every character on its own and after a word
ReaderStrings ==
    ConcatsUpTo({<<"a">>, <<"$", "b">>, <<" ">>, <<"-">>}, MaxReaderParts)
    \cup {<<c>> : c \in WordEnders \cup WordCharacters}
    \cup {<<"a", c>> : c \in WordEnders \cup WordCharacters}

\* what an extending definition spells: a token anew, a token with the empty
\* string, a token with a new word
Overrides ==
    {<< <<GBS_COMMAND_DROP, <<"q">> >> >>,
     << <<GBS_COLOR_RED, <<>> >> >>,
     << <<GBS_COLOR_RED, <<"w">> >> >>}

\* user locales that extend a built-in locale or one another, and one that
\* extends nothing and spells one token only
ExtensionDefinitions ==
    {frPartial}
    \cup {[extends |-> base, tokens |-> tokens] : base \in {"en", "x", "y"},
                                                 tokens \in Overrides}

ExtensionNames == {"x", "y", "z"}

\* the locales option: the entries of an object in key order, no key twice
ExtensionBatches ==
    {l \in UNION {[1..k -> ExtensionNames \X ExtensionDefinitions] : k \in 0..MaxLocales} :
        \A i, j \in DOMAIN l : l[i][1] = l[j][1] => i = j}

\* the options locales that extend are registered under
ExtensionOptions ==
    {GobstonesTranslatorOptions("en", t, Absent, l, Absent, Absent) :
        t \in {undefined, "y"}, l \in ExtensionBatches}

\* the code strings given to the operations of these translators
ExtensionCodes == {<<"d", " ", "r">>, <<"$", "D", "$", "-", "$", "R", "$">>}

\* the keys and the values a BidirectionalMap is used with
MapKeySet == {"a", "b"}

MapValueSet == {"1", "2", "3"}

\* the entries a BidirectionalMap is constructed with
MapEntries == UNION {[1..n -> MapKeySet \X MapValueSet] : n \in 0..MaxEntries}

\* the calls made while other calls are in progress
InterleavedOptions ==
    {GobstonesTranslatorOptions("en", "es", Present(namesChain), <<>>, Absent, Absent),
     GobstonesTranslatorOptions("es", undefined, Absent, <<>>, Absent, Absent)}

InterleavedCalls ==
    {[op |-> "toTokens", code |-> <<"d", "-", "r">>, options |-> NoOptions],
     [op |-> "fromTokens", code |-> <<"$", "D", "$", " ", "d", "d">>,
      options |-> WithIncludeNames(TRUE)],
     [op |-> "translate", code |-> <<"d", " ", "p">>, options |-> WithIncludeNames(TRUE)],
     [op |-> "translate", code |-> <<"r">>, options |-> NoOptions]}

-----------------------------------------------------------------------------
(* The state machine: one translator is constructed, then operations are   *)
(* called on it one after the other.                                         *)

NoCall == [op |-> "", code |-> <<>>, options |-> NoOptions]

NoOptionsYet == GobstonesTranslatorOptions(undefined, undefined, Absent, <<>>, Absent, Absent)

\* the callers that may have a call in progress at the same time
Callers == 1..MaxCalls

\* the locals of a caller that has no call in progress; turns counts the turns
\* the loop in progress has taken
NoScan ==
    [phase |-> "idle", op |-> "", code |-> <<>>, options |-> NoOptions,
     map |-> <<>>, sr |-> StringReader(<<>>), result |-> <<>>, turns |-> 0,
     outcome |-> Returned(<<>>)]

\* the translator object, as the operations see it
This ==
    [tokenPrefix |-> tokenPrefix, tokenSuffix |-> tokenSuffix,
     registeredLocales |-> registeredLocales, from |-> from, to |-> to, names |-> names]

unchangedTranslator ==
    UNCHANGED <<constructed, thrown, options, tokenPrefix, tokenSuffix, registeredLocales,
                from, to, names>>

unchangedHelpers == UNCHANGED <<reader, readerCall, bimap, bimapCall>>

\* no method was called on the reader since it was constructed
NoReaderCall ==
    [op |-> "", before |-> StringReader(<<>>), ret |-> Absent, flag |-> FALSE]

\* no update was made to the map since it was constructed: the last call is
\* the constructor's, with its entries
NoMapCall ==
    [op |-> "", key |-> "", value |-> "", keys |-> {}, values |-> {}, entries |-> <<>>]

\* the fields of the translator are those of this after the step
translatorBecomes(this) ==
    /\ tokenPrefix' = this.tokenPrefix
    /\ tokenSuffix' = this.tokenSuffix
    /\ registeredLocales' = this.registeredLocales
    /\ from' = this.from
    /\ to' = this.to
    /\ names' = this.names
    /\ UNCHANGED <<constructed, thrown, options>>

Init ==
    /\ constructed = "no"
    /\ thrown = NoError
    /\ options = NoOptionsYet
    /\ tokenPrefix = NewObject.tokenPrefix
    /\ tokenSuffix = NewObject.tokenSuffix
    /\ registeredLocales = NewObject.registeredLocales
    /\ from = NewObject.from
    /\ to = NewObject.to
    /\ names = NewObject.names
    /\ pc = "idle"
    /\ call = NoCall
    /\ result = Returned(<<>>)
    /\ scans = [i \in Callers |-> NoScan]
    /\ reader = StringReader(<<>>)
    /\ readerCall = NoReaderCall
    /\ bimap = BidirectionalMap(<<>>)
    /\ bimapCall = NoMapCall

\* new GobstonesTranslator(opts)
Construct(opts) ==
    /\ constructed = "no"
    /\ LET c == constructor(opts)
       IN /\ constructed' = IF c.error = NoError THEN "yes" ELSE "threw"
          /\ thrown' = c.error
          /\ tokenPrefix' = c.this.tokenPrefix
          /\ tokenSuffix' = c.this.tokenSuffix
          /\ registeredLocales' = c.this.registeredLocales
          /\ from' = c.this.from
          /\ to' = c.this.to
          /\ names' = c.this.names
    /\ options' = opts
    /\ UNCHANGED <<pc, call, result, scans>>
    /\ unchangedHelpers

ToTokens(code, opts) ==
    /\ constructed = "yes" /\ pc = "idle"
    /\ call' = [op |-> "toTokens", code |-> code, options |-> opts]
    /\ result' = toTokens(This, code, opts)
    /\ pc' = "returned"
    /\ translatorBecomes(thisAfterToTokens(This, code, opts))
    /\ UNCHANGED scans
    /\ unchangedHelpers

FromTokens(code, opts) ==
    /\ constructed = "yes" /\ pc = "idle"
    /\ call' = [op |-> "fromTokens", code |-> code, options |-> opts]
    /\ result' = fromTokens(This, code, opts)
    /\ pc' = "returned"
    /\ translatorBecomes(thisAfterFromTokens(This, code, opts))
    /\ UNCHANGED scans
    /\ unchangedHelpers

Translate(code, opts) ==
    /\ constructed = "yes" /\ pc = "idle"
    /\ call' = [op |-> "translate", code |-> code, options |-> opts]
    /\ result' = translate(This, code, opts)
    /\ pc' = "returned"
    /\ translatorBecomes(thisAfterTranslate(This, code, opts))
    /\ UNCHANGED scans
    /\ unchangedHelpers

\* the caller takes the result and is ready for the next call
Return ==
    /\ pc = "returned"
    /\ pc' = "idle"
    /\ call' = NoCall
    /\ result' = Returned(<<>>)
    /\ unchangedTranslator
    /\ UNCHANGED scans
    /\ unchangedHelpers

Next ==
    \/ \E opts \in TranslatorOptions : Construct(opts)
    \/ \E code \in Codes, opts \in TranslationOptions : ToTokens(code, opts)
    \/ \E code \in Codes, opts \in TranslationOptions : FromTokens(code, opts)
    \/ \E code \in Codes, opts \in TranslationOptions : Translate(code, opts)
    \/ Return

Spec == Init /\ [][Next]_vars

\* a call that threw before or between its loops: its locals stay as they
\* were when it threw
scanThrew(scan, error) == [scan EXCEPT !.phase = "done", !.outcome = Threw(error)]

\* the locals of a call as translateWithMap(code, map) enters its loop
scanEntered(scan, phase, code, map) ==
    [scan EXCEPT !.phase = phase, !.map = map, !.sr = StringReader(code), !.result = <<>>,
                 !.turns = 0]

\* the reader is made and its first character read before the checks
Begin_readsAhead(i, c) ==
    /\ constructed = "yes" /\ scans[i].phase = "idle"
    /\ LET m == IF c.op = "fromTokens" THEN fromTokensMap(This, c.options)
                ELSE toTokensMap(This, c.options)
           scan == [NoScan EXCEPT !.op = c.op, !.code = c.code, !.options = c.options,
                                  !.sr = nextChar(StringReader(c.code)).sr]
       IN scans' = [scans EXCEPT ![i] =
                       IF m.threw THEN scanThrew(scan, m.error)
                       ELSE scanEntered(scan,
                                        IF c.op = "fromTokens" THEN "fromTokens"
                                        ELSE "toTokens",
                                        c.code, m.map)]
    /\ UNCHANGED <<pc, call, result>>
    /\ unchangedTranslator
    /\ unchangedHelpers

\* caller i calls an operation: it runs up to the loop of translateWithMap
Begin(i, c) ==
    /\ constructed = "yes" /\ scans[i].phase = "idle"
    /\ LET m == IF c.op = "fromTokens" THEN fromTokensMap(This, c.options)
                ELSE toTokensMap(This, c.options)
           scan == [NoScan EXCEPT !.op = c.op, !.code = c.code, !.options = c.options]
       IN scans' = [scans EXCEPT ![i] =
                       IF m.threw THEN scanThrew(scan, m.error)
                       ELSE scanEntered(scan,
                                        IF c.op = "fromTokens" THEN "fromTokens"
                                        ELSE "toTokens",
                                        c.code, m.map)]
    /\ UNCHANGED <<pc, call, result>>
    /\ unchangedTranslator
    /\ unchangedHelpers

\* every call in progress reads with one and the same reader index
ScanStep_sharedReader(i) ==
    /\ constructed = "yes" /\ scans[i].phase \in {"toTokens", "fromTokens"}
    /\ ~eof(scans[i].sr)
    /\ LET step == scanStep(scans[i].sr, scans[i].result, scans[i].map)
       IN scans' = [j \in Callers |->
                       IF j = i
                       THEN [scans[j] EXCEPT !.sr = step.sr, !.result = step.result,
                                             !.turns = @ + 1]
                       ELSE IF scans[j].phase \in {"toTokens", "fromTokens"}
                       THEN [scans[j] EXCEPT !.sr.index = step.sr.index]
                       ELSE scans[j]]
    /\ UNCHANGED <<pc, call, result>>
    /\ unchangedTranslator
    /\ unchangedHelpers

\* the call of caller i takes one turn of the loop
ScanStep(i) ==
    /\ constructed = "yes" /\ scans[i].phase \in {"toTokens", "fromTokens"}
    /\ ~eof(scans[i].sr)
    /\ LET step == scanStep(scans[i].sr, scans[i].result, scans[i].map)
       IN scans' = [scans EXCEPT ![i] = [@ EXCEPT !.sr = step.sr, !.result = step.result,
                                                  !.turns = @ + 1]]
    /\ UNCHANGED <<pc, call, result>>
    /\ unchangedTranslator
    /\ unchangedHelpers

\* the loop of caller i ends: translateWithMap returns, and the operation
\* returns too or, the toTokens half of translate, goes on with fromTokens
ScanEnd(i) ==
    /\ constructed = "yes" /\ scans[i].phase \in {"toTokens", "fromTokens"}
    /\ eof(scans[i].sr)
    /\ LET scan == scans[i]
           m == fromTokensMap(This, optionsWithNoNames(scan.options))
       IN scans' = [scans EXCEPT ![i] =
                       IF scan.op = "translate" /\ scan.phase = "toTokens"
                       THEN IF m.threw THEN scanThrew(scan, m.error)
                            ELSE scanEntered(scan, "fromTokens", scan.result, m.map)
                       ELSE [scan EXCEPT !.phase = "done", !.outcome = Returned(scan.result)]]
    /\ UNCHANGED <<pc, call, result>>
    /\ unchangedTranslator
    /\ unchangedHelpers

\* caller i takes the result of its call and may call again
End(i) ==
    /\ scans[i].phase = "done"
    /\ scans' = [scans EXCEPT ![i] = NoScan]
    /\ UNCHANGED <<pc, call, result>>
    /\ unchangedTranslator
    /\ unchangedHelpers

\* calls on one translator with their turns of the loop interleaved
NextInterleaved ==
    \/ \E opts \in InterleavedOptions : Construct(opts)
    \/ \E i \in Callers, c \in InterleavedCalls : Begin(i, c)
    \/ \E i \in Callers : ScanStep(i)
    \/ \E i \in Callers : ScanEnd(i)
    \/ \E i \in Callers : End(i)

SpecInterleaved == Init /\ [][NextInterleaved]_vars

\* a call runs to its end: the loop of translateWithMap is synchronous code,
\* which keeps taking its turns and returns when the reader is at the end
SpecInterleavedFair ==
    /\ Init /\ [][NextInterleaved]_vars
    /\ \A i \in Callers : WF_vars(ScanStep(i)) /\ WF_vars(ScanEnd(i))

unchangedButReader ==
    /\ UNCHANGED <<pc, call, result, scans, bimap, bimapCall>>
    /\ unchangedTranslator

\* new StringReader(str)
NewStringReader(str) ==
    /\ reader' = StringReader(str)
    /\ readerCall' = NoReaderCall
    /\ unchangedButReader

\* reader.peekChar()
PeekChar ==
    /\ reader' = peekChar(reader).sr
    /\ readerCall' = [op |-> "peekChar", before |-> reader, ret |-> peekChar(reader).ret, flag |-> FALSE]
    /\ unchangedButReader

\* reader.nextChar()
NextChar ==
    /\ reader' = nextChar(reader).sr
    /\ readerCall' = [op |-> "nextChar", before |-> reader, ret |-> nextChar(reader).ret, flag |-> FALSE]
    /\ unchangedButReader

\* reader.peekWord()
PeekWord ==
    /\ reader' = peekWord(reader).sr
    /\ readerCall' = [op |-> "peekWord", before |-> reader, ret |-> peekWord(reader).ret, flag |-> FALSE]
    /\ unchangedButReader

\* reader.nextWord()
NextWord ==
    /\ reader' = nextWord(reader).sr
    /\ readerCall' = [op |-> "nextWord", before |-> reader, ret |-> nextWord(reader).ret, flag |-> FALSE]
    /\ unchangedButReader

\* reader.isWord(): no field is assigned
IsWord ==
    /\ reader' = reader
    /\ readerCall' = [op |-> "isWord", before |-> reader, ret |-> Absent, flag |-> isWord(reader)]
    /\ unchangedButReader

\* reader.eof(): no field is assigned
Eof ==
    /\ reader' = reader
    /\ readerCall' = [op |-> "eof", before |-> reader, ret |-> Absent, flag |-> eof(reader)]
    /\ unchangedButReader

\* a StringReader used on its own
NextReader ==
    \/ \E str \in ReaderStrings : NewStringReader(str)
    \/ PeekChar
    \/ NextChar
    \/ PeekWord
    \/ NextWord
    \/ IsWord
    \/ Eof

SpecReader == Init /\ [][NextReader]_vars

unchangedButMap ==
    /\ UNCHANGED <<pc, call, result, scans, reader, readerCall>>
    /\ unchangedTranslator

\* new BidirectionalMap(entries), once
NewBidirectionalMap(entries) ==
    /\ bimap = BidirectionalMap(<<>>) /\ bimapCall = NoMapCall
    /\ bimap' = BidirectionalMap(entries)
    /\ bimapCall' = [NoMapCall EXCEPT
                        !.entries = entries,
                        !.keys = {entries[i][1] : i \in 1..Len(entries)},
                        !.values = {entries[i][2] : i \in 1..Len(entries)}]
    /\ unchangedButMap

\* bimap.setByKey(key, value)
SetByKey(key, value) ==
    /\ bimap' = setByKey(bimap, key, value)
    /\ bimapCall' = [op |-> "setByKey", key |-> key, value |-> value,
                     keys |-> bimapCall.keys \cup {key},
                     values |-> bimapCall.values \cup {value},
                     entries |-> <<>>]
    /\ unchangedButMap

\* bimap.setByValue(value, key)
SetByValue(value, key) ==
    /\ bimap' = setByValue(bimap, value, key)
    /\ bimapCall' = [op |-> "setByValue", key |-> key, value |-> value,
                     keys |-> bimapCall.keys \cup {key},
                     values |-> bimapCall.values \cup {value},
                     entries |-> <<>>]
    /\ unchangedButMap

\* a BidirectionalMap used on its own
NextMap ==
    \/ \E entries \in MapEntries : NewBidirectionalMap(entries)
    \/ \E key \in MapKeySet, value \in MapValueSet : SetByKey(key, value)
    \/ \E key \in MapKeySet, value \in MapValueSet : SetByValue(value, key)

SpecMap == Init /\ [][NextMap]_vars

\* the same machine under the options with locales that extend
NextExtension ==
    \/ \E opts \in ExtensionOptions : Construct(opts)
    \/ \E code \in ExtensionCodes, opts \in {NoOptions} : ToTokens(code, opts)
    \/ \E code \in ExtensionCodes, opts \in {NoOptions} : FromTokens(code, opts)
    \/ \E code \in ExtensionCodes, opts \in {NoOptions} : Translate(code, opts)
    \/ Return

SpecExtension == Init /\ [][NextExtension]_vars

\* the same machine under the options that exercise the registry
NextRegistry ==
    \/ \E opts \in RegistryOptions : Construct(opts)
    \/ \E code \in RegistryCodes, opts \in TranslationOptions : ToTokens(code, opts)
    \/ \E code \in RegistryCodes, opts \in TranslationOptions : FromTokens(code, opts)
    \/ \E code \in RegistryCodes, opts \in TranslationOptions : Translate(code, opts)
    \/ Return

SpecRegistry == Init /\ [][NextRegistry]_vars

-----------------------------------------------------------------------------
(* Vocabulary of the properties *)

isSeparator(char) == char \in WordEnders

RECURSIVE spansFrom(_, _)
spansFrom(s, acc) ==
    IF s = <<>> THEN acc
    ELSE IF acc # <<>> /\ isSeparator(acc[Len(acc)][1]) = isSeparator(Head(s))
    THEN spansFrom(Tail(s), [acc EXCEPT ![Len(acc)] = @ \o <<Head(s)>>])
    ELSE spansFrom(Tail(s), Append(acc, <<Head(s)>>))

\* a string cut into its maximal runs of separators and of word characters
Spans(s) == spansFrom(s, <<>>)

isWordSpan(span) == ~isSeparator(span[1])

\* the words of a string: its maximal runs of word characters
Words(s) == {Spans(s)[i] : i \in {j \in 1..Len(Spans(s)) : isWordSpan(Spans(s)[j])}}

\* a call of op has returned or thrown and the caller has not yet taken the result
Called(op) == constructed = "yes" /\ pc = "returned" /\ call.op = op

\* both locales of the translator are configured and registered
BothLocales ==
    /\ from # undefined /\ isRegistered(registeredLocales, from)
    /\ to # undefined /\ isRegistered(registeredLocales, to)

-----------------------------------------------------------------------------
(* C1: translate as the composition of toTokens and fromTokens *)

\* C1 as stated: on a translator with both locales, translate(text, {includeNames})
\* returns what fromTokens(toTokens(text, {includeNames}), {includeNames}) returns,
\* the same includeNames flag being given to both halves.
C1_TranslateIsComposeWithSameFlag ==
    (Called("translate") /\ from # undefined /\ to # undefined) =>
        LET keywordCode == toTokens(This, call.code, call.options)
        IN result = IF keywordCode.threw THEN keywordCode
                    ELSE fromTokens(This, keywordCode.value, call.options)

\* C1 amended: on a translator with both locales, translate(text, {includeNames})
\* returns (or throws) what fromTokens(toTokens(text, {includeNames}),
\* {includeNames: false}) returns (or throws): the flag reaches the toTokens half only.
C1_TranslateIsComposeWithoutNamesInSecondHalf ==
    (Called("translate") /\ from # undefined /\ to # undefined) =>
        LET keywordCode == toTokens(This, call.code, call.options)
        IN result = IF keywordCode.threw THEN keywordCode
                    ELSE fromTokens(This, keywordCode.value, WithIncludeNames(FALSE))

\* translate with includeNames has returned a string in which a name was replaced
C1_Witness ==
    /\ Called("translate") /\ BothLocales
    /\ includeNamesOf(call.options) /\ names.defined
    /\ ~result.threw
    /\ \E w \in Words(call.code) : MapHas(names.map, w)
    /\ result.value # call.code

-----------------------------------------------------------------------------
(* C2: translate applies the names once *)

\* the code of the call is one word
OneWord == Spans(call.code) = <<call.code>> /\ isWordSpan(call.code)

\* translate was called with includeNames on a translator that has names and
\* both locales
TranslateWithNames ==
    /\ Called("translate") /\ BothLocales
    /\ includeNamesOf(call.options) /\ names.defined

\* C2 as stated: translate with includeNames applies the names once, in the
\* toTokens half, so that a from-name always comes out as its to-name.
C2_FromNameComesOutAsToName ==
    (TranslateWithNames /\ OneWord /\ MapHas(names.map, call.code)) =>
        (~result.threw /\ result.value = MapGet(names.map, call.code))

\* no word of s is a decorated token of the destination locale
NoTokenOfDestination(s) ==
    \A w \in Words(s) : ~MapHas(registeredLocales[to].map, w)

\* C2 amended: translate with includeNames applies the names once, in the
\* toTokens half: a from-name comes out as its to-name and a word that already
\* is a to-name (and no key of the toTokens dictionary) comes out unchanged,
\* never as its from-name -- unless the to-name is, or holds a word that is, a
\* decorated token of the destination locale, which the fromTokens half
\* replaces by its spelling.
C2_NamesAppliedOnce ==
    (TranslateWithNames /\ OneWord) =>
        /\ ~result.threw
        /\ (MapHas(names.map, call.code)
            /\ NoTokenOfDestination(MapGet(names.map, call.code)))
              => result.value = MapGet(names.map, call.code)
        /\ (MapHas(names.reverseMap, call.code)
            /\ ~MapHas(names.map, call.code)
            /\ ~MapHas(registeredLocales[from].reverseMap, call.code)
            /\ NoTokenOfDestination(call.code))
              => result.value = call.code

\* translate with includeNames was given a word that already is a to-name and
\* returned it, where the names read backwards would have changed it
C2_Witness ==
    /\ TranslateWithNames /\ OneWord
    /\ MapHas(names.reverseMap, call.code)
    /\ ~MapHas(names.map, call.code)
    /\ MapGet(names.reverseMap, call.code) # call.code
    /\ result.value = call.code

-----------------------------------------------------------------------------
(* C3: round trip through the tokens of one locale *)

\* s is one word: not empty and without separators
SingleWord(s) == s # <<>> /\ \A i \in 1..Len(s) : ~isSeparator(s[i])

\* the spellings and the decorated tokens of a registered locale
Spellings(locale) == MapKeys(registeredLocales[locale].reverseMap)

DecoratedTokens(locale) == MapKeys(registeredLocales[locale].map)

\* toTokens was called without names on a translator whose source locale is
\* also its destination, with a text all of whose words are spellings of it
RoundTripCase ==
    /\ Called("toTokens") /\ BothLocales /\ from = to
    /\ ~includeNamesOf(call.options)
    /\ Words(call.code) \subseteq Spellings(from)

\* C3 as stated: for a locale A used as source and destination and a text made
\* of spellings of A and separators, fromTokens(toTokens(text)) = text.
C3_RoundTripIdentity ==
    RoundTripCase =>
        fromTokens(This, result.value, call.options) = Returned(call.code)

\* C3 amended: for a locale A used as source and destination, none of whose
\* decorated tokens holds a separator character (true of the default '$'
\* decoration), and a text made of spellings of A and separators,
\* fromTokens(toTokens(text)) = text.
C3_RoundTripIdentityOfWordTokens ==
    (RoundTripCase /\ \A k \in DecoratedTokens(from) : SingleWord(k)) =>
        fromTokens(This, result.value, call.options) = Returned(call.code)

\* a text with a spelling and a separator went to tokens and comes back
C3_Witness ==
    /\ RoundTripCase
    /\ \A k \in DecoratedTokens(from) : SingleWord(k)
    /\ Words(call.code) # {}
    /\ \E i \in 1..Len(call.code) : isSeparator(call.code[i])
    /\ result.value # call.code
    /\ fromTokens(This, result.value, call.options).value = call.code

-----------------------------------------------------------------------------
(* C4: translating there and back *)

\* the translator built with the same options but the two locales swapped
Backwards == constructor([options EXCEPT !.from = options.to, !.to = options.from]).this

\* the locale gives every token name one spelling, no two the same
TotalBijection(locale) ==
    /\ DecoratedTokens(locale) = {decorated(tokenPrefix, t, tokenSuffix) : t \in LocaleTokens}
    /\ Len(registeredLocales[locale].reverseMap) = Len(registeredLocales[locale].map)

\* translate was called without names between two locales that are total bijections
SymmetryCase ==
    /\ Called("translate") /\ BothLocales
    /\ ~includeNamesOf(call.options)
    /\ TotalBijection(from) /\ TotalBijection(to)

-----------------------------------------------------------------------------
(* C5: formatting preservation *)

\* what the operation of the call returns for a text, on this translator
SameCallOn(text) ==
    IF call.op = "toTokens" THEN toTokens(This, text, call.options)
    ELSE IF call.op = "fromTokens" THEN fromTokens(This, text, call.options)
    ELSE translate(This, text, call.options)

\* an operation was called and returned a string
ReturnedString ==
    /\ constructed = "yes" /\ pc = "returned"
    /\ call.op \in {"toTokens", "fromTokens", "translate"}
    /\ ~result.threw

\* C5: for toTokens, fromTokens and translate, the output is the input with
\* every maximal run of separator characters unchanged and in place, each
\* maximal word span being replaced by what the operation makes of that word:
\* only word spans change.
C5_FormattingPreserved ==
    ReturnedString =>
        LET spans == Spans(call.code)
        IN result.value =
             Concat([i \in 1..Len(spans) |->
                       IF isWordSpan(spans[i]) THEN SameCallOn(spans[i]).value
                       ELSE spans[i]])

\* a text with a separator run and a word that the operation replaced
C5_Witness ==
    /\ ReturnedString
    /\ \E i \in 1..Len(Spans(call.code)) :
          /\ ~isWordSpan(Spans(call.code)[i])
          /\ (i + 1) \in 1..Len(Spans(call.code))
    /\ \E w \in Words(call.code) : SameCallOn(w).value # w
    /\ result.value # call.code

-----------------------------------------------------------------------------
(* C6: words that are no key pass through *)

\* the names are asked for by the call
NamesAsked == includeNamesOf(call.options)

\* the keys of the dictionary toTokens (resp. fromTokens) works with
ToTokensKeys(withNames) ==
    Spellings(from) \cup (IF withNames THEN MapKeys(names.map) ELSE {})

FromTokensKeys(withNames) ==
    DecoratedTokens(to) \cup (IF withNames THEN MapKeys(names.reverseMap) ELSE {})

\* the keys of the dictionaries the operation of the call works with
ActiveKeys ==
    IF call.op = "toTokens" THEN ToTokensKeys(NamesAsked)
    ELSE IF call.op = "fromTokens" THEN FromTokensKeys(NamesAsked)
    ELSE ToTokensKeys(NamesAsked) \cup FromTokensKeys(FALSE)

\* an operation was called on a translator that has what the call needs: the
\* locales of the operation are registered, the names are there if asked for
CallWithDictionary ==
    /\ constructed = "yes" /\ pc = "returned"
    /\ call.op \in {"toTokens", "fromTokens", "translate"}
    /\ call.op \in {"toTokens", "translate"}
          => (from # undefined /\ isRegistered(registeredLocales, from))
    /\ call.op \in {"fromTokens", "translate"}
          => (to # undefined /\ isRegistered(registeredLocales, to))
    /\ NamesAsked => names.defined

\* C6: in toTokens, fromTokens and translate a word that is not a key of the
\* dictionary in use is emitted unchanged, wherever it stands in the text, and
\* raises no error.
C6_UnmatchedPassThrough ==
    CallWithDictionary =>
        LET spans == Spans(call.code)
        IN /\ ~result.threw
           /\ result.value =
                Concat([i \in 1..Len(spans) |->
                          IF isWordSpan(spans[i]) /\ spans[i] \in ActiveKeys
                          THEN SameCallOn(spans[i]).value
                          ELSE spans[i]])

\* translate with names met a word that is no key and returned the text as it was
C6_Witness ==
    /\ CallWithDictionary /\ call.op = "translate"
    /\ NamesAsked
    /\ \E w \in Words(call.code) : w \notin ActiveKeys
    /\ ~result.threw /\ result.value = call.code

-----------------------------------------------------------------------------
(* C7: the output is the word-by-word image under the effective dictionary *)

\* what the effective dictionary of toTokens makes of a word: its to-name if
\* the names are in use and it is a from-name, else the decorated token of the
\* source locale it spells, else the word
ToTokensImage(w) ==
    IF NamesAsked /\ MapHas(names.map, w) THEN MapGet(names.map, w)
    ELSE IF w \in Spellings(from) THEN MapGet(registeredLocales[from].reverseMap, w)
    ELSE w

\* what the effective dictionary of fromTokens makes of a word: its from-name
\* if the names are in use and it is a to-name, else the spelling the
\* destination locale gives the decorated token, else the word
FromTokensImage(w) ==
    IF NamesAsked /\ MapHas(names.reverseMap, w) THEN MapGet(names.reverseMap, w)
    ELSE IF w \in DecoratedTokens(to) THEN MapGet(registeredLocales[to].map, w)
    ELSE w

\* the locale maps spellings to prefix + TOKEN_NAME + suffix and back
DecoratedBothWays(locale) ==
    /\ \A k \in DecoratedTokens(locale) :
          \E t \in LocaleTokens : k = tokenPrefix \o t \o tokenSuffix
    /\ \A w \in Spellings(locale) :
          /\ MapGet(registeredLocales[locale].reverseMap, w) \in DecoratedTokens(locale)
          /\ MapGet(registeredLocales[locale].map,
                    MapGet(registeredLocales[locale].reverseMap, w)) = w

\* C7: the output of toTokens (resp. fromTokens) is the concatenation, in scan
\* order, of the image of each maximal word span under the effective
\* dictionary and of each separator unchanged; the dictionary takes the
\* spellings of the source locale to prefix + TOKEN_NAME + suffix (resp. back
\* to the spellings of the destination locale) whatever the decoration.
C7_OutputIsImageOfSpans ==
    (CallWithDictionary /\ call.op \in {"toTokens", "fromTokens"}) =>
        LET spans == Spans(call.code)
        IN /\ ~result.threw
           /\ DecoratedBothWays(IF call.op = "toTokens" THEN from ELSE to)
           /\ result.value =
                Concat([i \in 1..Len(spans) |->
                          IF ~isWordSpan(spans[i]) THEN spans[i]
                          ELSE IF call.op = "toTokens" THEN ToTokensImage(spans[i])
                          ELSE FromTokensImage(spans[i])])

\* toTokens under a configured decoration replaced a spelling by its token
C7_Witness ==
    /\ CallWithDictionary /\ call.op = "toTokens"
    /\ options.tokenPrefix.defined
    /\ \E w \in Words(call.code) :
          /\ w \in Spellings(from)
          /\ ToTokensImage(w) = tokenPrefix \o GBS_COMMAND_DROP \o tokenSuffix
    /\ \E i \in 1..Len(call.code) : isSeparator(call.code[i])
    /\ ~result.threw /\ result.value # call.code


-----------------------------------------------------------------------------
(* Vocabulary of the registry properties *)

BuiltInNames == {availableLocales[i][1] : i \in DOMAIN availableLocales}

\* the registry right after the built-in locales went in, under the
\* decoration of this translator
BuiltInRegistry ==
    registerAllLocales([NewObject EXCEPT !.tokenPrefix = tokenPrefix,
                                         !.tokenSuffix = tokenSuffix],
                       availableLocales).registeredLocales

localeName(i) == options.locales[i][1]

localeDefinition(i) == options.locales[i][2]

\* the constructor has run, to its end or to a throw
Constructing == constructed \in {"yes", "threw"}

\* the constructor got as far as registering the i-th user locale: every one
\* before it went into the registry
Reached(i) ==
    /\ Constructing
    /\ \A j \in 1..(i - 1) :
          localeName(j) \notin BuiltInNames /\ localeName(j) \in DOMAIN registeredLocales

\* every built-in and every user locale was registered
RegistrationCompleted == Reached(Len(options.locales) + 1)

\* the names registered when the i-th user locale is processed
RegisteredBefore(i) == BuiltInNames \cup {localeName(j) : j \in 1..(i - 1)}

-----------------------------------------------------------------------------
(* C8: the constructor validates the source and the destination locale *)

\* the name is given and is no key of the registry
Unknown(name) == name # undefined /\ name \notin DOMAIN registeredLocales

\* C8: once the registry is built, for every name given as source or as
\* destination locale that is no key of the registry (built-ins plus user
\* locales) the constructor raises NonExistentLocaleGiven and produces no
\* translator; an absent source or destination is accepted.
C8_ConstructorValidatesLocaleNames ==
    RegistrationCompleted =>
        /\ Unknown(options.from) =>
              (constructed = "threw"
               /\ thrown = NonExistentLocaleGiven(options.from, "fromLang"))
        /\ (~Unknown(options.from) /\ Unknown(options.to)) =>
              (constructed = "threw"
               /\ thrown = NonExistentLocaleGiven(options.to, "toLang"))
        /\ (~Unknown(options.from) /\ ~Unknown(options.to)) => constructed = "yes"

-----------------------------------------------------------------------------
(* C9: a locale name that is already taken *)

\* the i-th user locale is processed and its name is already in the registry
Collides(i) == Reached(i) /\ localeName(i) \in RegisteredBefore(i)

\* the construction was aborted with the entry of the name as the built-ins left it
AbortedLeaving(name) ==
    /\ constructed = "threw"
    /\ name \in DOMAIN registeredLocales
    /\ registeredLocales[name] = BuiltInRegistry[name]

\* C9 as stated: registering a locale whose name is already in the registry
\* raises LocaleNameCollision, leaves the existing entry untouched and aborts
\* the construction: no translator is produced.
C9_CollisionRaisesLocaleNameCollision ==
    \A i \in DOMAIN options.locales :
        Collides(i) =>
            (AbortedLeaving(localeName(i)) /\ thrown = LocaleNameCollision(localeName(i)))

\* C9 amended: registering a locale whose name is already in the registry
\* raises LocaleNameCollision -- or NonExistentLocaleGiven, when the definition
\* names an extends target whose lookup in the registry object yields
\* undefined, that check coming first -- and either way leaves the existing
\* entry untouched and aborts the construction: no translator is produced.
C9_CollisionAbortsConstruction ==
    \A i \in DOMAIN options.locales :
        Collides(i) =>
            /\ AbortedLeaving(localeName(i))
            /\ thrown =
                 IF localeDefinition(i).extends = undefined
                    \/ isDefined(BuiltInRegistry, localeDefinition(i).extends)
                    \/ localeDefinition(i).extends \in RegisteredBefore(i)
                 THEN LocaleNameCollision(localeName(i))
                 ELSE NonExistentLocaleGiven(localeDefinition(i).extends, "extends")

\* a user locale named as a built-in one, coming after one that was
\* registered, was refused with LocaleNameCollision
C9_Witness ==
    \E i \in DOMAIN options.locales :
        /\ i > 1 /\ Collides(i)
        /\ thrown = LocaleNameCollision(localeName(i))
        /\ constructed = "threw"
        /\ localeName(1) \in DOMAIN registeredLocales

-----------------------------------------------------------------------------
(* C10: extending a locale that is not registered *)

\* the i-th user locale is processed and extends a name not registered by then
ExtendsUnregistered(i) ==
    /\ Reached(i)
    /\ localeDefinition(i).extends # undefined
    /\ localeDefinition(i).extends \notin RegisteredBefore(i)

\* the i-th user locale went into the registry
Registered(i) == Reached(i + 1)

\* C10: a locale definition that extends a name not registered when it is
\* processed (built-ins first, then the user locales in order) raises
\* NonExistentLocaleGiven, a reference to a locale that comes later in the
\* batch included; so every registered extending locale has a base that was
\* registered before it.
C10_ExtendsUnregisteredRaises ==
    \A i \in DOMAIN options.locales :
        /\ ExtendsUnregistered(i) =>
              (constructed = "threw"
               /\ thrown = NonExistentLocaleGiven(localeDefinition(i).extends, "extends"))
        /\ (Registered(i) /\ localeDefinition(i).extends # undefined) =>
              localeDefinition(i).extends \in RegisteredBefore(i)


-----------------------------------------------------------------------------
(* C11: operations on a translator without a source or a destination locale *)

\* C11 as stated: toTokens without a source locale raises NoFromLocaleGiven,
\* fromTokens without a destination locale raises NoToLocaleGiven, and
\* translate with either locale missing raises one of these two errors.
C11_MissingLocaleRaisesOneOfTwo ==
    /\ (Called("toTokens") /\ from = undefined) => result = Threw(NoFromLocaleGiven)
    /\ (Called("fromTokens") /\ to = undefined) => result = Threw(NoToLocaleGiven)
    /\ (Called("translate") /\ (from = undefined \/ to = undefined)) =>
          result \in {Threw(NoFromLocaleGiven), Threw(NoToLocaleGiven)}

\* C11 amended: toTokens without a source locale raises NoFromLocaleGiven and
\* fromTokens without a destination locale raises NoToLocaleGiven; translate
\* with either locale missing never returns a string: it raises
\* NoFromLocaleGiven when the source is missing and, when only the destination
\* is missing, the error of its toTokens half if that half fails (NoNamesGiven
\* when names are asked for and none were given) and NoToLocaleGiven otherwise.
C11_MissingLocaleNeverTranslates ==
    /\ (Called("toTokens") /\ from = undefined) => result = Threw(NoFromLocaleGiven)
    /\ (Called("fromTokens") /\ to = undefined) => result = Threw(NoToLocaleGiven)
    /\ (Called("translate") /\ from = undefined) => result = Threw(NoFromLocaleGiven)
    /\ (Called("translate") /\ from # undefined /\ to = undefined) =>
          /\ result.threw
          /\ result = IF toTokens(This, call.code, call.options).threw
                      THEN toTokens(This, call.code, call.options)
                      ELSE Threw(NoToLocaleGiven)

\* translate on a translator with a source but no destination locale got
\* through its toTokens half and raised NoToLocaleGiven
C11_Witness ==
    /\ Called("translate") /\ from # undefined /\ to = undefined
    /\ ~toTokens(This, call.code, call.options).threw
    /\ toTokens(This, call.code, call.options).value # call.code
    /\ result = Threw(NoToLocaleGiven)


-----------------------------------------------------------------------------
(* C12: includeNames on a translator without names *)

\* one of the three operations was called and has returned or thrown
AnyCall == Called("toTokens") \/ Called("fromTokens") \/ Called("translate")

\* the call asked for the names: includeNames was given and true
AskedForNames == call.options.given /\ call.options.includeNames

\* the locale the operation looks up first: the destination for fromTokens,
\* the source for toTokens and translate
FirstLocale == IF call.op = "fromTokens" THEN to ELSE from

\* C12 as stated: for the three operations alike, includeNames = true on a
\* translator without names raises NoNamesGiven; includeNames false or
\* omitted never raises NoNamesGiven, with or without names.
C12_NoNamesGivenIffAskedWithoutNames ==
    /\ (AnyCall /\ AskedForNames /\ ~names.defined) => result = Threw(NoNamesGiven)
    /\ (AnyCall /\ ~AskedForNames) => result.error # NoNamesGiven

\* C12 amended: for the three operations alike, includeNames = true on a
\* translator without names raises NoNamesGiven provided the locale the
\* operation looks up first (the destination for fromTokens, the source for
\* toTokens and translate) is given and registered; includeNames false or
\* omitted never raises NoNamesGiven, with or without names.
C12_NoNamesGivenWhenLocaleRegistered ==
    /\ (/\ AnyCall /\ AskedForNames /\ ~names.defined
        /\ FirstLocale # undefined /\ isRegistered(registeredLocales, FirstLocale))
          => result = Threw(NoNamesGiven)
    /\ (AnyCall /\ ~AskedForNames) => result.error # NoNamesGiven

\* translate was asked for the names on a translator that has a source locale
\* and no names, and raised NoNamesGiven
C12_Witness ==
    /\ Called("translate") /\ AskedForNames /\ ~names.defined
    /\ from # undefined /\ isRegistered(registeredLocales, from)
    /\ result = Threw(NoNamesGiven)


-----------------------------------------------------------------------------
(* C13: the translator is not changed by its operations *)

\* C13: once the translator is constructed, no toTokens, fromTokens or
\* translate call, returning or throwing, with or without includeNames,
\* changes its source locale, destination locale, names, token prefix, token
\* suffix or any dictionary of the registry.
C13_TranslatorImmutable ==
    [][constructed = "yes" =>
          UNCHANGED <<from, to, names, tokenPrefix, tokenSuffix, registeredLocales>>]_vars

\* toTokens ran its loop on the Map of the source locale itself, replaced a
\* word, and the translator is still what the constructor built
C13_Witness ==
    /\ Called("toTokens") /\ ~AskedForNames
    /\ ~result.threw /\ result.value # call.code
    /\ This = constructor(options).this


-----------------------------------------------------------------------------
(* C14: calls in progress at the same time *)

\* what the call of a caller returns or throws when it runs alone
Alone(scan) ==
    IF scan.op = "toTokens" THEN toTokens(This, scan.code, scan.options)
    ELSE IF scan.op = "fromTokens" THEN fromTokens(This, scan.code, scan.options)
    ELSE translate(This, scan.code, scan.options)

Scanning(i) == scans[i].phase \in {"toTokens", "fromTokens"}

\* C14: several calls on one translator, their turns of the scanning loop
\* interleaved in any order, each end with what the call gives when it runs
\* alone: every call has its own reader position and result buffer.
C14_InterleavedCallsAsAlone ==
    \A i \in Callers : scans[i].phase = "done" => scans[i].outcome = Alone(scans[i])

\* a call returned a changed text while another call, on another text, was
\* in the middle of its loop
C14_Witness ==
    \E i, j \in Callers :
        /\ i # j
        /\ scans[i].phase = "done" /\ ~scans[i].outcome.threw
        /\ scans[i].outcome.value # scans[i].code
        /\ Scanning(j) /\ scans[j].sr.index > 0 /\ ~eof(scans[j].sr)
        /\ scans[j].code # scans[i].code


-----------------------------------------------------------------------------
(* C15: a locale that extends nothing and leaves token names out *)

\* the token names a definition gives a spelling to
Spelled(def) == {def.tokens[k][1] : k \in 1..Len(def.tokens)}

\* the i-th user locale extends nothing, leaves token names out, and has a
\* name not yet taken when it is processed
PartialLocale(i) ==
    /\ localeDefinition(i).extends = undefined
    /\ Spelled(localeDefinition(i)) # LocaleTokens
    /\ localeName(i) \notin RegisteredBefore(i) \cup ObjectPrototype

\* the decorated tokens of the names the i-th user locale leaves out
OmittedTokens(i) ==
    {decorated(tokenPrefix, t, tokenSuffix) : t \in LocaleTokens \ Spelled(localeDefinition(i))}

\* the text of the call is the token k, alone or next to a separator
TextIsToken(k) == call.code \in {k, k \o <<" ">>, <<"-">> \o k}

\* fromTokens was called, with token k as the text, on a translator whose
\* destination is the i-th user locale, which leaves the name of k out
FromTokensOfOmitted(i, k) ==
    /\ Called("fromTokens") /\ to = localeName(i)
    /\ PartialLocale(i) /\ k \in OmittedTokens(i)
    /\ TextIsToken(k)

-----------------------------------------------------------------------------
(* Vocabulary of the StringReader properties *)

\* what a method returns when called on reader r
ReaderReturns(op, r) ==
    CASE op = "peekChar" -> [ret |-> peekChar(r).ret, flag |-> FALSE]
      [] op = "nextChar" -> [ret |-> nextChar(r).ret, flag |-> FALSE]
      [] op = "peekWord" -> [ret |-> peekWord(r).ret, flag |-> FALSE]
      [] op = "nextWord" -> [ret |-> nextWord(r).ret, flag |-> FALSE]
      [] op = "isWord" -> [ret |-> Absent, flag |-> isWord(r)]
      [] op = "eof" -> [ret |-> Absent, flag |-> eof(r)]

\* the position of the reader is the end of its string
AtEnd(r) == r.index >= Len(r.str)

\* the character at the position of the reader, which is not at the end
Current(r) == r.str[r.index + 1]

-----------------------------------------------------------------------------
(* C16: the peeking methods *)

\* C16: peekChar, peekWord, isWord and eof leave the position where it was:
\* called again they return the same, and a nextChar or nextWord that follows
\* returns what it would have returned without them.
C16_PeeksKeepPosition ==
    readerCall.op \in {"peekChar", "peekWord", "isWord", "eof"} =>
        /\ reader = readerCall.before
        /\ ReaderReturns(readerCall.op, reader)
             = [ret |-> readerCall.ret, flag |-> readerCall.flag]
        /\ nextChar(reader) = nextChar(readerCall.before)
        /\ nextWord(reader) = nextWord(readerCall.before)

\* peekWord, called in the middle of a string, returned a word of several
\* characters
C16_Witness ==
    /\ readerCall.op = "peekWord"
    /\ readerCall.before.index > 0
    /\ readerCall.ret.defined /\ Len(readerCall.ret.value) > 1
    /\ reader.index = readerCall.before.index

-----------------------------------------------------------------------------
(* C17: the reader at the end of its string *)

\* C17: at the end of the string peekChar, nextChar, peekWord and nextWord
\* return undefined and leave the position where it is, eof is true and
\* isWord is false, however often they are called.
C17_EndOfInputIsAbsent ==
    /\ (/\ readerCall.op \in {"peekChar", "nextChar", "peekWord", "nextWord"}
        /\ AtEnd(readerCall.before))
          => (readerCall.ret = Absent /\ reader = readerCall.before)
    /\ (readerCall.op = "eof" /\ AtEnd(readerCall.before))
          => (readerCall.flag /\ reader = readerCall.before)
    /\ (readerCall.op = "isWord" /\ AtEnd(readerCall.before))
          => (~readerCall.flag /\ reader = readerCall.before)

\* nextWord was called on a reader that had read its string to the end
C17_Witness ==
    /\ readerCall.op = "nextWord"
    /\ AtEnd(readerCall.before) /\ readerCall.before.index > 0
    /\ readerCall.ret = Absent
    /\ AtEnd(reader)

-----------------------------------------------------------------------------
(* C18: nextWord and nextChar *)

\* the longest run of word characters of the string of r from its position,
\* which holds a word character
MaximalRun(r) ==
    LET last == CHOOSE e \in (r.index + 1)..Len(r.str) :
                    /\ \A j \in (r.index + 1)..e : r.str[j] \notin WordEnders
                    /\ (e = Len(r.str) \/ r.str[e + 1] \in WordEnders)
    IN SubSeq(r.str, r.index + 1, last)

\* C18: at a word character nextWord returns the maximal run of word
\* characters from the position (up to the first separator or the end) and
\* advances by its length; nextChar returns the one character at the
\* position and advances by one.
C18_NextWordIsMaximalRun ==
    /\ (/\ readerCall.op = "nextWord"
        /\ ~AtEnd(readerCall.before)
        /\ Current(readerCall.before) \notin WordEnders)
          => /\ readerCall.ret = Present(MaximalRun(readerCall.before))
             /\ reader = [readerCall.before EXCEPT
                             !.index = @ + Len(MaximalRun(readerCall.before))]
    /\ (readerCall.op = "nextChar" /\ ~AtEnd(readerCall.before))
          => /\ readerCall.ret = Present(<<Current(readerCall.before)>>)
             /\ reader = [readerCall.before EXCEPT !.index = @ + 1]

\* nextWord returned a word of several characters and stopped at a separator
C18_Witness ==
    /\ readerCall.op = "nextWord"
    /\ readerCall.ret.defined /\ Len(readerCall.ret.value) > 1
    /\ ~AtEnd(reader) /\ Current(reader) \in WordEnders

-----------------------------------------------------------------------------
(* C19: the default word characters *)

\* the separators the default configuration is said to have
ListedSeparators ==
    {" ", "\n", "\t", "(", ")", "[", "]", "{", "}", ",", ";", ".", ":", "=", "<", ">", "-"}

\* C19: with the default configuration isWord is true exactly when the reader
\* is not at the end and the character at its position is none of space,
\* newline, tab, ( ) [ ] { } , ; . : = < > and -; every other character is a
\* word character.
C19_IsWordIffNoListedSeparator ==
    readerCall.op = "isWord" =>
        readerCall.flag = (/\ ~AtEnd(readerCall.before)
                           /\ Current(readerCall.before) \notin ListedSeparators)

\* isWord was called at an accented letter and returned true
C19_Witness ==
    /\ readerCall.op = "isWord" /\ readerCall.flag
    /\ Current(readerCall.before) = "é"


-----------------------------------------------------------------------------
(* C20: updates and lookups of a BidirectionalMap *)

\* C20: right after setByKey(k, v) or setByValue(v, k), in whatever state the
\* map was, hasKey(k) and hasValue(v) are true, getByKey(k) is v and
\* getByValue(v) is k; the lookup of a key or of a value that was never put
\* in returns undefined.
C20_UpdateThenLookup ==
    /\ bimapCall.op \in {"setByKey", "setByValue"} =>
          /\ hasKey(bimap, bimapCall.key) /\ hasValue(bimap, bimapCall.value)
          /\ getByKey(bimap, bimapCall.key) = Present(bimapCall.value)
          /\ getByValue(bimap, bimapCall.value) = Present(bimapCall.key)
    /\ \A key \in MapKeySet \ bimapCall.keys :
          ~hasKey(bimap, key) /\ getByKey(bimap, key) = Absent
    /\ \A value \in MapValueSet \ bimapCall.values :
          ~hasValue(bimap, value) /\ getByValue(bimap, value) = Absent

\* setByValue gave a key that had a value another value, and the old value
\* still leads to the key
C20_Witness ==
    /\ bimapCall.op = "setByValue"
    /\ \E value \in MapValueSet :
          /\ value # bimapCall.value
          /\ getByValue(bimap, value) = Present(bimapCall.key)
    /\ getByKey(bimap, bimapCall.key) = Present(bimapCall.value)
    /\ bimapCall.keys # MapKeySet


-----------------------------------------------------------------------------
(* C21: when the errors of configuration are raised *)

\* the call of caller i threw one of the three errors of configuration
ThrewConfigurationError(i) ==
    /\ scans[i].phase = "done" /\ scans[i].outcome.threw
    /\ scans[i].outcome.error \in {NoFromLocaleGiven, NoToLocaleGiven, NoNamesGiven}

\* the call of caller i has read nothing of its input
NothingScanned(i) == scans[i].sr.index = 0 /\ scans[i].result = <<>>

-----------------------------------------------------------------------------
(* Vocabulary of the properties of locales that extend *)

\* the token name of a decorated key
Bare(key) == SubSeq(key, Len(tokenPrefix) + 1, Len(key) - Len(tokenSuffix))

\* the i-th user locale was registered, by a constructor that returned, as an
\* extension
Extends(i) ==
    /\ constructed = "yes" /\ Registered(i)
    /\ localeDefinition(i).extends # undefined

\* the dictionary of the i-th user locale and the dictionary of its base
Dictionary(i) == registeredLocales[localeName(i)]

BaseDictionary(i) == registeredLocales[localeDefinition(i).extends]

\* the definition of the i-th user locale has an entry for the token name
Supplies(i, tokenName) == MapHas(localeDefinition(i).tokens, tokenName)

Supplied(i, tokenName) == MapGet(localeDefinition(i).tokens, tokenName)

-----------------------------------------------------------------------------
(* C22: the dictionary of a locale that extends *)

\* C22: the dictionary of a locale registered as an extension of B has, for
\* every decorated key of B, the spelling its definition supplies for the
\* token name, whatever string that is, and B's spelling where it supplies
\* none; both directions are made of these pairs, and a built-in B keeps the
\* dictionary it had.
C22_ExtensionOverridesBase ==
    \A i \in DOMAIN options.locales :
        Extends(i) =>
            /\ MapKeys(Dictionary(i).map) = MapKeys(BaseDictionary(i).map)
            /\ \A key \in MapKeys(BaseDictionary(i).map) :
                  MapGet(Dictionary(i).map, key) =
                      IF Supplies(i, Bare(key)) THEN Supplied(i, Bare(key))
                      ELSE MapGet(BaseDictionary(i).map, key)
            /\ Dictionary(i).reverseMap = ReverseSetAll(<<>>, Dictionary(i).map)
            /\ localeDefinition(i).extends \in BuiltInNames
                  => BaseDictionary(i) = BuiltInRegistry[localeDefinition(i).extends]


-----------------------------------------------------------------------------
(* C23: extension composes *)

\* the i-th user locale extends the j-th, which extends a third locale
Chain(i, j) ==
    /\ Extends(i) /\ Extends(j)
    /\ j < i /\ localeDefinition(i).extends = localeName(j)

\* the spelling of the key along the chain: the one the i-th locale supplies,
\* else the one the j-th supplies, else the one of the locale the j-th extends
ChainSpelling(i, j, key) ==
    IF Supplies(i, Bare(key)) THEN Supplied(i, Bare(key))
    ELSE IF Supplies(j, Bare(key)) THEN Supplied(j, Bare(key))
    ELSE MapGet(BaseDictionary(j).map, key)

\* C23: when C extends B and B extends A, the dictionary of C has, for each
\* key, C's spelling if C supplies one, else B's, else A's; and fromTokens to
\* C gives every word that is such a key this spelling, out of C's own
\* dictionary.
C23_ExtensionComposes ==
    \A i, j \in DOMAIN options.locales :
        Chain(i, j) =>
            /\ MapKeys(Dictionary(i).map) = MapKeys(BaseDictionary(j).map)
            /\ \A key \in MapKeys(BaseDictionary(j).map) :
                  MapGet(Dictionary(i).map, key) = ChainSpelling(i, j, key)
            /\ (Called("fromTokens") /\ to = localeName(i)) =>
                  LET spans == Spans(call.code)
                  IN /\ ~result.threw
                     /\ result.value =
                          Concat([n \in 1..Len(spans) |->
                                    IF spans[n] \in MapKeys(BaseDictionary(j).map)
                                    THEN ChainSpelling(i, j, spans[n])
                                    ELSE spans[n]])


-----------------------------------------------------------------------------
(* C24: the names are layered over the locale *)

\* toTokens or fromTokens was called with includeNames true on a translator
\* that has names and the locale the operation reads
CallWithNames ==
    /\ Called("toTokens") \/ Called("fromTokens")
    /\ AskedForNames /\ names.defined
    /\ FirstLocale # undefined /\ isRegistered(registeredLocales, FirstLocale)

\* the view of the locale and the view of the names the operation uses
LocaleView ==
    IF call.op = "toTokens" THEN registeredLocales[from].reverseMap
    ELSE registeredLocales[to].map

NamesView == IF call.op = "toTokens" THEN names.map ELSE names.reverseMap

\* C24: with includeNames true the dictionary in use is the locale's view with
\* the names' view put over it: a word that is a key of the names' view comes
\* out as the names say, a key of the locale's view as well or not; every
\* other key of the locale's view comes out as the locale says; no error is
\* raised. toTokens reads the names from the from side to the to side,
\* fromTokens from the to side to the from side.
C24_NamesOverrideLocale ==
    CallWithNames =>
        LET spans == Spans(call.code)
        IN /\ ~result.threw
           /\ result.value =
                Concat([n \in 1..Len(spans) |->
                          IF ~isWordSpan(spans[n]) THEN spans[n]
                          ELSE IF MapHas(NamesView, spans[n]) THEN MapGet(NamesView, spans[n])
                          ELSE IF MapHas(LocaleView, spans[n]) THEN MapGet(LocaleView, spans[n])
                          ELSE spans[n]])

\* a word that is a key of both views came out as the names say, which is not
\* what the locale says
C24_Witness ==
    /\ CallWithNames
    /\ \E w \in Words(call.code) :
          /\ MapHas(NamesView, w) /\ MapHas(LocaleView, w)
          /\ MapGet(NamesView, w) # MapGet(LocaleView, w)
          /\ result = Returned(MapGet(NamesView, w))


-----------------------------------------------------------------------------
(* C25: the consuming methods advance *)

\* C25: nextChar and nextWord, called where the reader is not at the end of
\* its string, on a word character or on a separator, leave the position at
\* least one character further.
C25_NextAdvances ==
    (readerCall.op \in {"nextChar", "nextWord"} /\ ~AtEnd(readerCall.before))
        => reader.index >= readerCall.before.index + 1


-----------------------------------------------------------------------------
(* C26: the constructor of BidirectionalMap *)

\* the map is as its constructor left it
JustConstructed == bimapCall.op = ""

\* the places of the pairs with this key, and with this value, among the
\* entries the map was constructed with
PairsWithKey(key) ==
    {i \in 1..Len(bimapCall.entries) : bimapCall.entries[i][1] = key}

PairsWithValue(value) ==
    {i \in 1..Len(bimapCall.entries) : bimapCall.entries[i][2] = value}

Last(places) == CHOOSE i \in places : \A j \in places : j <= i

\* C26: a BidirectionalMap constructed from a sequence of pairs gives, for a
\* key, the value of the last pair with that key and, for a value, the key of
\* the last pair with that value; a key and a value of no pair are not found.
C26_LastPairWins ==
    JustConstructed =>
        /\ \A key \in MapKeySet :
              getByKey(bimap, key) =
                  IF PairsWithKey(key) = {} THEN Absent
                  ELSE Present(bimapCall.entries[Last(PairsWithKey(key))][2])
        /\ \A value \in MapValueSet :
              getByValue(bimap, value) =
                  IF PairsWithValue(value) = {} THEN Absent
                  ELSE Present(bimapCall.entries[Last(PairsWithValue(value))][1])

\* the map was constructed from two pairs with one key and two values, and
\* the key leads to the second value
C26_Witness ==
    /\ JustConstructed
    /\ \E key \in MapKeySet :
          /\ Cardinality(PairsWithKey(key)) > 1
          /\ bimapCall.entries[1][2] # bimapCall.entries[Last(PairsWithKey(key))][2]
          /\ getByKey(bimap, key) = Present(bimapCall.entries[Last(PairsWithKey(key))][2])

-----------------------------------------------------------------------------
(* C27: the two directions of a BidirectionalMap *)

\* C27: after the construction and after every setByKey and setByValue, the
\* key k leads to the value v exactly when the value v leads to the key k,
\* and the two directions have as many entries.
C27_DirectionsSynchronized ==
    /\ \A key \in MapKeySet, value \in MapValueSet :
          getByKey(bimap, key) = Present(value) <=> getByValue(bimap, value) = Present(key)
    /\ Len(getMapByKeys(bimap)) = Len(getMapByValues(bimap))


-----------------------------------------------------------------------------
(* C28: the loop of a translation ends *)

\* the loop of caller i takes a turn
Turn(i) == Scanning(i) /\ scans'[i].phase = scans[i].phase /\ scans'[i].turns # scans[i].turns

\* the characters a turn reads from the position of r: the word there, or the
\* one separator
Read(r) == IF Current(r) \in WordEnders THEN 1 ELSE Len(MaximalRun(r))

\* the position of the loop of caller i is within its text, and the loop has
\* taken no more turns than the characters it has read
WithinText(i) ==
    /\ scans[i].sr.index <= Len(scans[i].sr.str)
    /\ scans[i].turns <= scans[i].sr.index

\* C28: the loop of a translation ends on every text. Every turn moves the
\* position forward, by the length of the word when the reader is at a word
\* and by one otherwise; the position never goes beyond the length of the
\* text; the loop has taken at most as many turns as the text has characters
\* when it ends, with the reader at the end; and every loop that was entered
\* ends.
C28_ScanLoopTerminates ==
    /\ [](\A i \in Callers : Scanning(i) \/ scans[i].phase = "done" => WithinText(i))
    /\ [](\A i \in Callers :
            (scans[i].phase = "done" /\ ~scans[i].outcome.threw)
                => eof(scans[i].sr) /\ scans[i].turns <= Len(scans[i].sr.str))
    /\ [][\A i \in Callers :
            Turn(i) => /\ ~AtEnd(scans[i].sr)
                       /\ scans'[i].turns = scans[i].turns + 1
                       /\ scans'[i].sr.index = scans[i].sr.index + Read(scans[i].sr)
                       /\ scans'[i].sr.index > scans[i].sr.index]_vars
    /\ \A i \in Callers : Scanning(i) ~> scans[i].phase = "done"

\* a loop ended after fewer turns than its text has characters, a word of two
\* characters having been read in one turn
C28_Witness ==
    \E i \in Callers :
        /\ scans[i].phase = "done" /\ ~scans[i].outcome.threw
        /\ eof(scans[i].sr)
        /\ 1 < scans[i].turns /\ scans[i].turns < Len(scans[i].sr.str)


-----------------------------------------------------------------------------
(* C29: which error, when several preconditions fail *)

\* the call asked for the names and the translator has none
NamesMissing == AskedForNames /\ ~names.defined

\* C29: when several preconditions fail at once the first check decides:
\* toTokens without a source locale raises NoFromLocaleGiven though the names
\* are missing too, fromTokens without a destination locale raises
\* NoToLocaleGiven though the names are missing too, and translate makes the
\* checks of toTokens before those of fromTokens: with a source locale,
\* missing names and no destination locale it raises NoNamesGiven, with
\* neither locale it raises NoFromLocaleGiven.
C29_FirstCheckDecides ==
    /\ (Called("toTokens") /\ from = undefined /\ NamesMissing)
          => result = Threw(NoFromLocaleGiven)
    /\ (Called("fromTokens") /\ to = undefined /\ NamesMissing)
          => result = Threw(NoToLocaleGiven)
    /\ (/\ Called("translate")
        /\ from # undefined /\ isRegistered(registeredLocales, from)
        /\ NamesMissing /\ to = undefined)
          => result = Threw(NoNamesGiven)
    /\ (Called("translate") /\ from = undefined /\ to = undefined)
          => result = Threw(NoFromLocaleGiven)

\* translate was called with neither locale and with the names missing, and
\* raised NoFromLocaleGiven
C29_Witness ==
    /\ Called("translate")
    /\ from = undefined /\ to = undefined /\ NamesMissing
    /\ call.code # <<>>
    /\ result = Threw(NoFromLocaleGiven)


-----------------------------------------------------------------------------
(* C30: the keys of a locale that extends *)

\* the decorated keys of a registered locale
KeysOf(name) == MapKeys(registeredLocales[name].map)

\* the user locale registered under the name extends another locale
ExtendingName(name) ==
    \E i \in DOMAIN options.locales :
        localeName(i) = name /\ localeDefinition(i).extends # undefined

\* the locale that extends nothing at the end of the extends links from name
RECURSIVE Root(_)
Root(name) ==
    IF ExtendingName(name)
    THEN Root(localeDefinition(CHOOSE i \in DOMAIN options.locales :
                                   localeName(i) = name).extends)
    ELSE name

\* the token names the definition of the i-th user locale spells and its base
\* has no key for
NewToBase(i) ==
    {t \in Spelled(localeDefinition(i)) :
        tokenPrefix \o t \o tokenSuffix \notin KeysOf(localeDefinition(i).extends)}

\* C30: a locale registered as an extension has the decorated keys of its
\* base and no other: a token name its definition spells and the base has no
\* key for gives no entry, and extends is no entry; so it has the keys of the
\* locale that extends nothing at the end of its extends links, as every
\* other locale that leads there has.
C30_ExtensionKeepsBaseKeys ==
    \A i \in DOMAIN options.locales :
        Extends(i) =>
            /\ KeysOf(localeName(i)) = KeysOf(localeDefinition(i).extends)
            /\ \A t \in NewToBase(i) :
                  tokenPrefix \o t \o tokenSuffix \notin KeysOf(localeName(i))
            /\ \A key \in KeysOf(localeName(i)) :
                  Bare(key) # <<"e", "x", "t", "e", "n", "d", "s">>
            /\ KeysOf(localeName(i)) = KeysOf(Root(localeName(i)))
            /\ \A j \in DOMAIN options.locales :
                  (Extends(j) /\ Root(localeName(j)) = Root(localeName(i)))
                      => KeysOf(localeName(j)) = KeysOf(localeName(i))

\* a locale extends a user locale that spells one token only, spells another
\* token itself, and has the one key of its base
C30_Witness ==
    \E i \in DOMAIN options.locales :
        /\ Extends(i)
        /\ NewToBase(i) # {}
        /\ Root(localeName(i)) \notin BuiltInNames
        /\ KeysOf(localeName(i)) = {tokenPrefix \o GBS_COLOR_RED \o tokenSuffix}

====
